---- MODULE Spec2Model ----
\* Target lifecycle and metrics bridge of ping_exporter:
\* the on-demand (ephemeral) target registry of startServer, the static
\* target manager of startMonitor / refreshDNS, and the two collectors.
EXTENDS Integers, Sequences, FiniteSets, TLC

\* ---------------------------------------------------------------- bounds
MaxTime == 3            \* the clock runs 0..MaxTime
TargetsTimeout == 2     \* --targets.timeout, in clock units
MaxTimers == 2          \* time.AfterFunc calls in one behaviour
NumHandlers == 2        \* on-demand requests served concurrently
MaxRecon == 2           \* reconciliation goroutines in flight per target
MaxPackets == 2         \* echo requests the engine sends per target
RefreshInterval == 2    \* --dns.refresh when enabled, in clock units
NumScrapes == 2         \* Collect calls running concurrently

\* ---------------------------------------------------------------- universe
CfgTargets == <<"s1">>
StaticHosts == {CfgTargets[i] : i \in 1..Len(CfgTargets)}
EphemeralHosts == {"e1"}
Hosts == StaticHosts \cup EphemeralHosts
\* what LookupIPAddr can return: <<>> stands for an error or zero addresses
Resolutions == {<<>>, <<"A">>, <<"B">>}
Handlers == 1..NumHandlers

VARIABLES
    now,            \* wall clock
    monitor,        \* mon.Monitor: Probe Identity -> [sent, lost]
    targetsMap,     \* sync.Map hostname -> timer id (0: no entry)
    timers,         \* every timer time.AfterFunc created, by id
    req,            \* the on-demand handler goroutines
    lastResp,       \* the response the last finished on-demand request got
    serving,        \* main() has reached startServer
    startIdx,       \* startMonitor's loop index over cfg.Targets
    staticAddrs,    \* target.addresses of each static target
    recon,          \* addOrUpdateMonitor goroutines spawned by refreshDNS
    dnsRefresh,     \* cfg.DNS.Refresh
    nextRefresh,    \* next tick of the refresh ticker
    pmetrics,       \* pingBatchCollector.metrics (cached snapshot)
    batchOut,       \* samples of the last pingBatchCollector.Collect
    deprecated,     \* enableDeprecatedMetrics
    lastStore,      \* history: when the last request armed its timer, per hostname
    steady,         \* history: every gap between Stores was below the timeout
    reconciled,     \* history: the address change the last reconciliation made
    cfgTargets,     \* cfg.Targets: the static hostnames, in configuration order
    mutex,          \* the collectors' package-level mutex: its holder, 0 if free
    scrape          \* the Collect calls running as separate steps

vars == <<now, monitor, targetsMap, timers, req, lastResp, serving,
          startIdx, staticAddrs, recon, dnsRefresh, nextRefresh, pmetrics,
          batchOut, deprecated, lastStore, steady, reconciled, cfgTargets,
          mutex, scrape>>

\* ---------------------------------------------------------------- target
\* getIPVersion
IpVersion(addr) == IF addr = "A" THEN "4" ELSE "6"

\* target.nameForIP: fmt.Sprintf("%s %s %s", host, ip, version), kept as the
\* sequence of its space-separated tokens
nameForIP(host, addr) == <<host, addr, IpVersion(addr)>>

\* strings.SplitN(target, " ", 3): the label values target, ip, ip_version
SplitN(name) == [target |-> name[1], ip |-> name[2], ip_version |-> name[3]]

Range(s) == {s[i] : i \in 1..Len(s)}

ZeroMetrics == [sent |-> 0, lost |-> 0]

\* monitor.AddTargetDelayed: (re)creates the target with an empty history
AddTarget(m, name) ==
    [n \in (DOMAIN m) \cup {name} |-> IF n = name THEN ZeroMetrics ELSE m[n]]

\* monitor.RemoveTarget
RemoveTargets(m, names) == [n \in (DOMAIN m) \ names |-> m[n]]

\* monitor.Export
Export == monitor

\* target.cleanUp as the expiry callback uses it: deregister the addresses
cleanUp(m, host, addrs) ==
    RemoveTargets(m, {nameForIP(host, a) : a \in Range(addrs)})

\* target.addIfNew on a target whose addresses are `known`: the addresses after
\* a successful registration (the target records what it registered)
addIfNew(known, addr) ==
    IF addr \in Range(known) THEN known ELSE Append(known, addr)

\* target.addOrUpdateMonitor once the lookup answered `addrs` (non-empty):
\* register what is new, deregister what is gone, remember the resolution.
\* regOk = FALSE: the engine rejects a new address and the call returns early.
addOrUpdateMonitor(m, host, known, addrs, regOk) ==
    LET fresh == {a \in Range(addrs) : a \notin Range(known)}
        gone  == {a \in Range(known) : a \notin Range(addrs)}
        added == [n \in (DOMAIN m) \cup {nameForIP(host, a) : a \in fresh} |->
                    IF n \in {nameForIP(host, a) : a \in fresh}
                    THEN ZeroMetrics ELSE m[n]]
    IN  IF fresh # {} /\ ~regOk
        THEN [monitor |-> m, addresses |-> known, err |-> TRUE]
        ELSE [monitor |-> RemoveTargets(added, {nameForIP(host, a) : a \in gone}),
              addresses |-> addrs, err |-> FALSE]

\* ---------------------------------------------------------------- rendering
NoLabels == [target |-> "", ip |-> "", ip_version |-> ""]

\* a sample: descriptor, label values, the deprecated "type" label ("" when the
\* descriptor has none) and the value as num/den (RTT durations are not
\* modelled: an RTT sample carries 0/1)
UpSample == [desc |-> "up", labels |-> NoLabels, type |-> "", num |-> 1, den |-> 1]

\* the guard with the comparison loosened
HasRoundTripsOrEqual(m) == m.sent >= m.lost

\* metrics.PacketsSent > metrics.PacketsLost
HasRoundTrips(m) == m.sent > m.lost

\* float64(PacketsLost) / float64(PacketsSent), kept as numerator, denominator
Loss(m) == <<m.lost, m.sent>>

RttStats == {"best", "worst", "mean", "std_dev"}

\* the samples pingBatchCollector.Collect emits for one snapshot entry
RenderEntry(name, m, depr) ==
    LET l == SplitN(name)
        rtt == IF HasRoundTrips(m)
               THEN {[desc |-> "rtt_" \o st, labels |-> l, type |-> "",
                      num |-> 0, den |-> 1] : st \in RttStats}
                    \cup (IF depr
                          THEN {[desc |-> "rtt", labels |-> l, type |-> st,
                                 num |-> 0, den |-> 1] : st \in RttStats}
                          ELSE {})
               ELSE {}
    IN  rtt \cup {[desc |-> "loss_percent", labels |-> l, type |-> "",
                   num |-> Loss(m)[1], den |-> Loss(m)[2]]}

\* pingBatchCollector.Collect on the snapshot it ends up holding
RenderBatch(snapshot, depr) ==
    {UpSample} \cup UNION {RenderEntry(n, snapshot[n], depr) : n \in DOMAIN snapshot}

\* the samples pingCollector.Collect emits for the entry it found
RenderTarget(name, m, depr) ==
    LET l == SplitN(name)
        rtt == IF HasRoundTrips(m)
               THEN (IF depr
                     THEN {[desc |-> "rtt", labels |-> l, type |-> st,
                            num |-> 0, den |-> 1] : st \in RttStats}
                     ELSE {})
                    \cup {[desc |-> "rtt_" \o st, labels |-> l, type |-> "",
                           num |-> 0, den |-> 1] : st \in RttStats}
               ELSE {}
    IN  rtt \cup {[desc |-> "loss_percent", labels |-> l, type |-> "",
                   num |-> Loss(m)[1], den |-> Loss(m)[2]]}

\* pingCollector.Collect: without an entry for the target it returns at once
RenderSingle(exported, name, depr) ==
    IF name \notin DOMAIN exported
    THEN {}
    ELSE {UpSample} \cup RenderTarget(name, exported[name], depr)

\* ---------------------------------------------------------------- state
IdleReq == [pc |-> "idle", host |-> "", addrs |-> <<>>, taddrs |-> <<>>,
            to |-> 0, mine |-> 0]
NoResp == [host |-> "", status |-> 0, out |-> {}]
EmptyMap == [n \in {} |-> ZeroMetrics]
NoRecon == [pc |-> "none", addrs |-> <<>>]
NotReconciled == [from |-> <<>>, to |-> <<>>]
NoScrapes == <<>>

\* the program as main() starts it, here with --dns.refresh=0
Init ==
    /\ now = 0
    /\ monitor = EmptyMap
    /\ targetsMap = [h \in Hosts |-> 0]
    /\ timers = <<>>
    /\ req = [r \in Handlers |-> IdleReq]
    /\ lastResp = NoResp
    /\ serving = FALSE
    /\ startIdx = 1
    /\ staticAddrs = [h \in StaticHosts |-> <<>>]
    /\ recon = [h \in StaticHosts |-> [i \in 1..MaxRecon |-> NoRecon]]
    /\ dnsRefresh = 0
    /\ nextRefresh = 0
    /\ pmetrics = EmptyMap
    /\ batchOut = {}
    /\ deprecated = TRUE
    /\ lastStore = [h \in Hosts |-> -1]
    /\ steady = [h \in Hosts |-> TRUE]
    /\ reconciled = [h \in StaticHosts |-> NotReconciled]
    /\ cfgTargets = CfgTargets
    /\ mutex = 0
    /\ scrape = NoScrapes

\* ---------------------------------------------------------------- startup
\* a loop that gives up at the first target it cannot resolve or register
StartMonitorStepAborting ==
    /\ ~serving
    /\ startIdx <= Len(cfgTargets)
    /\ \E addrs \in Resolutions, regOk \in BOOLEAN :
         LET host == cfgTargets[startIdx]
             res == addOrUpdateMonitor(monitor, host, staticAddrs[host], addrs, regOk)
         IN  IF addrs = <<>> \/ res.err
             THEN /\ UNCHANGED <<monitor, staticAddrs>>
                  /\ startIdx' = Len(cfgTargets) + 1
             ELSE /\ monitor' = res.monitor
                  /\ staticAddrs' = [staticAddrs EXCEPT ![host] = res.addresses]
                  /\ startIdx' = startIdx + 1
    /\ UNCHANGED <<now, targetsMap, timers, req, lastResp, serving, recon,
                   dnsRefresh, nextRefresh, pmetrics, batchOut, deprecated,
                   lastStore, steady, reconciled, cfgTargets, mutex, scrape>>

\* startMonitor's loop body for cfg.Targets[startIdx]
StartMonitorStep ==
    /\ ~serving
    /\ startIdx <= Len(cfgTargets)
    /\ \E addrs \in Resolutions, regOk \in BOOLEAN :
         LET host == cfgTargets[startIdx]
             res == addOrUpdateMonitor(monitor, host, staticAddrs[host], addrs, regOk)
         IN  IF addrs = <<>>
             THEN UNCHANGED <<monitor, staticAddrs>>
             ELSE /\ monitor' = res.monitor
                  /\ staticAddrs' = [staticAddrs EXCEPT ![host] = res.addresses]
    /\ startIdx' = startIdx + 1
    /\ UNCHANGED <<now, targetsMap, timers, req, lastResp, serving, recon,
                   dnsRefresh, nextRefresh, pmetrics, batchOut, deprecated, lastStore, steady, reconciled,
                   cfgTargets, mutex, scrape>>

\* go startDNSAutoRefresh(...) and startServer
StartServer ==
    /\ ~serving
    /\ startIdx > Len(cfgTargets)
    /\ serving' = TRUE
    /\ nextRefresh' = now + dnsRefresh
    /\ UNCHANGED <<now, monitor, targetsMap, timers, req, lastResp, startIdx,
                   staticAddrs, recon, dnsRefresh, pmetrics, batchOut, deprecated, lastStore, steady, reconciled,
                   cfgTargets, mutex, scrape>>

\* ---------------------------------------------------------------- environment
PendingDue == \E id \in 1..Len(timers) :
                 timers[id].state = "pending" /\ timers[id].deadline <= now

RefreshDue == serving /\ dnsRefresh > 0 /\ nextRefresh <= now

\* the clock advances (startup takes no time); expired timers and ticker ticks
\* are delivered first
Tick ==
    /\ serving
    /\ now < MaxTime
    /\ ~PendingDue
    /\ ~RefreshDue
    /\ now' = now + 1
    /\ UNCHANGED <<monitor, targetsMap, timers, req, lastResp, serving,
                   startIdx, staticAddrs, recon, dnsRefresh, nextRefresh, pmetrics,
                   batchOut, deprecated, lastStore, steady, reconciled,
                   cfgTargets, mutex, scrape>>

\* the engine updates the statistics of a registered target: packets_sent and
\* packets_lost are two counters of the snapshot, each raised on its own
Probe(n, isLost) ==
    /\ n \in DOMAIN monitor
    /\ IF isLost
       THEN /\ monitor[n].lost < MaxPackets
            /\ monitor' = [monitor EXCEPT ![n].lost = @ + 1]
       ELSE /\ monitor[n].sent < MaxPackets
            /\ monitor' = [monitor EXCEPT ![n].sent = @ + 1]
    /\ UNCHANGED <<now, targetsMap, timers, req, lastResp, serving,
                   startIdx, staticAddrs, recon, dnsRefresh, nextRefresh, pmetrics,
                   batchOut, deprecated, lastStore, steady, reconciled,
                   cfgTargets, mutex, scrape>>

\* ---------------------------------------------------------------- on-demand
InFlight == {r \in Handlers : req[r].pc # "idle"}

\* (*time.Timer).Stop: a timer that has not fired yet never will
StopTimer(ts, id) ==
    IF ts[id].state = "pending"
    THEN [ts EXCEPT ![id] = [host |-> @.host, taddrs |-> <<>>, deadline |-> 0,
                             state |-> "stopped"]]
    ELSE ts

\* time.AfterFunc(targetsTimeout seconds, func() {...}) with the captured tg, t
NewTimer(host, taddrs) ==
    [host |-> host, taddrs |-> taddrs, deadline |-> now + TargetsTimeout,
     state |-> "pending"]

\* the 400 path with the Load / Stop done before the lookup result is examined
ReqResolveFailStopping(r, h) ==
    /\ serving
    /\ req[r].pc = "idle"
    /\ \A q \in 1..(r - 1) : req[q].pc # "idle"
    /\ lastResp' = [host |-> h, status |-> 400, out |-> {}]
    /\ timers' = IF targetsMap[h] = 0 THEN timers ELSE StopTimer(timers, targetsMap[h])
    /\ UNCHANGED <<now, monitor, targetsMap, req, serving, startIdx,
                   staticAddrs, recon, dnsRefresh, nextRefresh, pmetrics, batchOut,
                   deprecated, lastStore, steady, reconciled,
                   cfgTargets, mutex, scrape>>

\* ?target=h whose lookup fails or is empty: 400, nothing else
ReqResolveFail(r, h) ==
    /\ serving
    /\ req[r].pc = "idle"
    /\ \A q \in 1..(r - 1) : req[q].pc # "idle"
    /\ lastResp' = [host |-> h, status |-> 400, out |-> {}]
    /\ UNCHANGED <<now, monitor, targetsMap, timers, req, serving, startIdx,
                   staticAddrs, recon, dnsRefresh, nextRefresh, pmetrics, batchOut,
                   deprecated, lastStore, steady, reconciled,
                   cfgTargets, mutex, scrape>>

\* ?target=h resolved: t := &target{host: h}, addrs := lookup result
ReqResolve(r, h, addrs) ==
    /\ serving
    /\ req[r].pc = "idle"
    /\ \A q \in 1..(r - 1) : req[q].pc # "idle"
    /\ addrs # <<>>
    /\ Len(timers) + Cardinality(InFlight) < MaxTimers
    /\ req' = [req EXCEPT ![r] = [pc |-> "load", host |-> h, addrs |-> addrs,
                                  taddrs |-> <<>>, to |-> 0, mine |-> 0]]
    /\ UNCHANGED <<now, monitor, targetsMap, timers, lastResp, serving,
                   startIdx, staticAddrs, recon, dnsRefresh, nextRefresh, pmetrics,
                   batchOut, deprecated, lastStore, steady, reconciled,
                   cfgTargets, mutex, scrape>>

\* to, ok := targetsMap.Load(tg)
ReqLoad(r) ==
    /\ req[r].pc = "load"
    /\ req' = [req EXCEPT ![r].to = targetsMap[req[r].host],
                          ![r].pc = IF targetsMap[req[r].host] = 0
                                    THEN "add" ELSE "stop"]
    /\ UNCHANGED <<now, monitor, targetsMap, timers, lastResp, serving,
                   startIdx, staticAddrs, recon, dnsRefresh, nextRefresh, pmetrics,
                   batchOut, deprecated, lastStore, steady, reconciled,
                   cfgTargets, mutex, scrape>>

\* !ok: t.addIfNew(addrs[0], monitor) succeeds
ReqAdd(r) ==
    /\ req[r].pc = "add"
    /\ monitor' = AddTarget(monitor, nameForIP(req[r].host, req[r].addrs[1]))
    /\ req' = [req EXCEPT ![r].taddrs = addIfNew(req[r].taddrs, req[r].addrs[1]),
                          ![r].pc = "arm"]
    /\ UNCHANGED <<now, targetsMap, timers, lastResp, serving, startIdx,
                   staticAddrs, recon, dnsRefresh, nextRefresh, pmetrics, batchOut,
                   deprecated, lastStore, steady, reconciled,
                   cfgTargets, mutex, scrape>>

\* the 500 path with the expiry timer armed before the error is examined
ReqAddFailArmed(r) ==
    /\ req[r].pc = "add"
    /\ lastResp' = [host |-> req[r].host, status |-> 500, out |-> {}]
    /\ timers' = Append(timers, NewTimer(req[r].host, <<>>))
    /\ targetsMap' = [targetsMap EXCEPT ![req[r].host] = Len(timers) + 1]
    /\ req' = [req EXCEPT ![r] = IdleReq]
    /\ UNCHANGED <<now, monitor, serving, startIdx,
                   staticAddrs, recon, dnsRefresh, nextRefresh, pmetrics, batchOut,
                   deprecated, lastStore, steady, reconciled,
                   cfgTargets, mutex, scrape>>

\* !ok: t.addIfNew(addrs[0], monitor) returns an error: 500
ReqAddFail(r) ==
    /\ req[r].pc = "add"
    /\ lastResp' = [host |-> req[r].host, status |-> 500, out |-> {}]
    /\ req' = [req EXCEPT ![r] = IdleReq]
    /\ UNCHANGED <<now, monitor, targetsMap, timers, serving, startIdx,
                   staticAddrs, recon, dnsRefresh, nextRefresh, pmetrics, batchOut,
                   deprecated, lastStore, steady, reconciled,
                   cfgTargets, mutex, scrape>>

\* ok: to.(*time.Timer).Stop()
ReqStop(r) ==
    /\ req[r].pc = "stop"
    /\ timers' = StopTimer(timers, req[r].to)
    /\ req' = [req EXCEPT ![r].to = 0, ![r].pc = "arm"]
    /\ UNCHANGED <<now, monitor, targetsMap, lastResp, serving, startIdx,
                   staticAddrs, recon, dnsRefresh, nextRefresh, pmetrics, batchOut,
                   deprecated, lastStore, steady, reconciled,
                   cfgTargets, mutex, scrape>>

\* time.AfterFunc(...), evaluated as the argument of Store: the timer is
\* created and runs from now on
ReqArm(r) ==
    /\ req[r].pc = "arm"
    /\ timers' = Append(timers, NewTimer(req[r].host, req[r].taddrs))
    /\ req' = [req EXCEPT ![r].mine = Len(timers) + 1, ![r].taddrs = <<>>,
                          ![r].pc = "store"]
    /\ lastStore' = [lastStore EXCEPT ![req[r].host] = now]
    /\ steady' = [steady EXCEPT ![req[r].host] =
                      @ /\ (lastStore[req[r].host] < 0
                            \/ now - lastStore[req[r].host] < TargetsTimeout)]
    /\ UNCHANGED <<now, monitor, targetsMap, lastResp, serving, startIdx, staticAddrs,
                   recon, dnsRefresh, nextRefresh, pmetrics, batchOut, deprecated, reconciled,
                   cfgTargets, mutex, scrape>>

\* targetsMap.Store(tg, <the timer>)
ReqStore(r) ==
    /\ req[r].pc = "store"
    /\ targetsMap' = [targetsMap EXCEPT ![req[r].host] = req[r].mine]
    /\ req' = [req EXCEPT ![r].pc = "serve"]
    /\ UNCHANGED <<now, monitor, timers, lastResp, serving, startIdx, staticAddrs,
                   recon, dnsRefresh, nextRefresh, pmetrics, batchOut, deprecated,
                   lastStore, steady, reconciled,
                   cfgTargets, mutex, scrape>>

\* h.ServeHTTP(w, r): pingCollector{target: t.nameForIP(addrs[0])}.Collect
ReqServe(r) ==
    /\ req[r].pc = "serve"
    /\ lastResp' = [host |-> req[r].host, status |-> 200,
                    out |-> RenderSingle(Export,
                                         nameForIP(req[r].host, req[r].addrs[1]),
                                         deprecated)]
    /\ req' = [req EXCEPT ![r] = IdleReq]
    /\ UNCHANGED <<now, monitor, targetsMap, timers, serving, startIdx,
                   staticAddrs, recon, dnsRefresh, nextRefresh, pmetrics, batchOut,
                   deprecated, lastStore, steady, reconciled,
                   cfgTargets, mutex, scrape>>

\* ---------------------------------------------------------------- expiry
\* the runtime fires the timer and starts the callback in its own goroutine:
\* from now on Stop has no effect
TimerFire(id) ==
    /\ id \in 1..Len(timers)
    /\ timers[id].state = "pending"
    /\ timers[id].deadline <= now
    /\ timers' = [timers EXCEPT ![id].state = "fired"]
    /\ UNCHANGED <<now, monitor, targetsMap, req, lastResp, serving, startIdx,
                   staticAddrs, recon, dnsRefresh, nextRefresh, pmetrics, batchOut,
                   deprecated, lastStore, steady, reconciled,
                   cfgTargets, mutex, scrape>>

\* the callback runs targetsMap.Delete(tg)
TimerDelete(id) ==
    /\ id \in 1..Len(timers)
    /\ timers[id].state = "fired"
    /\ targetsMap' = [targetsMap EXCEPT ![timers[id].host] = 0]
    /\ timers' = [timers EXCEPT ![id].state = "cleanup"]
    /\ UNCHANGED <<now, monitor, req, lastResp, serving, startIdx,
                   staticAddrs, recon, dnsRefresh, nextRefresh, pmetrics, batchOut,
                   deprecated, lastStore, steady, reconciled,
                   cfgTargets, mutex, scrape>>

\* the callback goes on: t.cleanUp(t.addresses, monitor)
TimerCleanUp(id) ==
    /\ id \in 1..Len(timers)
    /\ timers[id].state = "cleanup"
    /\ monitor' = cleanUp(monitor, timers[id].host, timers[id].taddrs)
    /\ timers' = [timers EXCEPT ![id] = [host |-> @.host, taddrs |-> <<>>,
                                         deadline |-> 0, state |-> "done"]]
    /\ UNCHANGED <<now, targetsMap, req, lastResp, serving, startIdx,
                   staticAddrs, recon, dnsRefresh, nextRefresh, pmetrics, batchOut,
                   deprecated, lastStore, steady, reconciled,
                   cfgTargets, mutex, scrape>>

\* ---------------------------------------------------------------- DNS refresh
FreeSlot(h) == CHOOSE i \in 1..MaxRecon :
                  /\ recon[h][i].pc = "none"
                  /\ \A j \in 1..(i - 1) : recon[h][j].pc # "none"

\* a tick of time.NewTicker(interval): refreshDNS starts one goroutine per target
RefreshTick ==
    /\ RefreshDue
    /\ \A h \in Range(cfgTargets) : \E i \in 1..MaxRecon : recon[h][i].pc = "none"
    /\ recon' = [h \in Range(cfgTargets) |->
                    [recon[h] EXCEPT ![FreeSlot(h)] = [pc |-> "run", addrs |-> <<>>]]]
    /\ nextRefresh' = nextRefresh + dnsRefresh
    /\ reconciled' = [h \in Range(cfgTargets) |-> NotReconciled]
    /\ UNCHANGED <<now, monitor, targetsMap, timers, req, lastResp, serving,
                   startIdx, staticAddrs, dnsRefresh, pmetrics, batchOut, deprecated, lastStore, steady,
                   cfgTargets, mutex, scrape>>

\* The goroutine runs ta.addOrUpdateMonitor(monitor), step by step; every
\* step reads target.addresses as it is at that moment, so that overlapping
\* reconciliations of one target see each other's writes in any order.
\* the lookup answers addrs (<<>>: an error, logged, the goroutine ends)
ReconResolve(h, i, addrs) ==
    /\ recon[h][i].pc = "run"
    /\ recon' = [recon EXCEPT ![h][i] =
                    IF addrs = <<>> THEN NoRecon
                    ELSE [pc |-> "add", addrs |-> addrs]]
    /\ UNCHANGED <<now, monitor, targetsMap, timers, req, lastResp, serving,
                   startIdx, staticAddrs, dnsRefresh, nextRefresh, pmetrics,
                   batchOut, deprecated, lastStore, steady, reconciled,
                   cfgTargets, mutex, scrape>>

\* the addresses not yet in target.addresses are registered; regOk = FALSE:
\* the engine rejects one, the error is logged and the goroutine ends
ReconAdd(h, i, regOk) ==
    /\ recon[h][i].pc = "add"
    /\ LET fresh == {a \in Range(recon[h][i].addrs) : a \notin Range(staticAddrs[h])}
       IN  IF fresh # {} /\ ~regOk
           THEN /\ recon' = [recon EXCEPT ![h][i] = NoRecon]
                /\ UNCHANGED monitor
           ELSE /\ recon' = [recon EXCEPT ![h][i].pc = "remove"]
                /\ monitor' = [n \in (DOMAIN monitor) \cup {nameForIP(h, a) : a \in fresh} |->
                                 IF n \in {nameForIP(h, a) : a \in fresh}
                                 THEN ZeroMetrics ELSE monitor[n]]
    /\ UNCHANGED <<now, targetsMap, timers, req, lastResp, serving,
                   startIdx, staticAddrs, dnsRefresh, nextRefresh, pmetrics,
                   batchOut, deprecated, lastStore, steady, reconciled,
                   cfgTargets, mutex, scrape>>

\* the addresses of target.addresses that the lookup no longer returned are
\* deregistered
ReconRemove(h, i) ==
    /\ recon[h][i].pc = "remove"
    /\ monitor' = RemoveTargets(monitor,
                     {nameForIP(h, a) : a \in Range(staticAddrs[h]) \ Range(recon[h][i].addrs)})
    /\ recon' = [recon EXCEPT ![h][i].pc = "write"]
    /\ UNCHANGED <<now, targetsMap, timers, req, lastResp, serving,
                   startIdx, staticAddrs, dnsRefresh, nextRefresh, pmetrics,
                   batchOut, deprecated, lastStore, steady, reconciled,
                   cfgTargets, mutex, scrape>>

\* target.addresses = addrs, and the goroutine ends
ReconWrite(h, i) ==
    /\ recon[h][i].pc = "write"
    /\ staticAddrs' = [staticAddrs EXCEPT ![h] = recon[h][i].addrs]
    /\ reconciled' = [reconciled EXCEPT ![h] =
                         IF staticAddrs[h] = <<>> \/ staticAddrs[h] = recon[h][i].addrs
                         THEN NotReconciled
                         ELSE [from |-> staticAddrs[h], to |-> recon[h][i].addrs]]
    /\ recon' = [recon EXCEPT ![h][i] = NoRecon]
    /\ UNCHANGED <<now, monitor, targetsMap, timers, req, lastResp, serving,
                   startIdx, dnsRefresh, nextRefresh, pmetrics,
                   batchOut, deprecated, lastStore, steady,
                   cfgTargets, mutex, scrape>>

\* ---------------------------------------------------------------- batch scrape
\* a batch Collect that takes every pull, empty or not, as its snapshot
BatchCollectNoCache ==
    /\ serving
    /\ pmetrics' = Export
    /\ batchOut' = RenderBatch(pmetrics', deprecated)
    /\ UNCHANGED <<now, monitor, targetsMap, timers, req, lastResp, serving,
                   startIdx, staticAddrs, recon, dnsRefresh, nextRefresh,
                   deprecated, lastStore, steady, reconciled,
                   cfgTargets, mutex, scrape>>

\* GET <metrics-path> without ?target: pingBatchCollector.Collect
BatchCollect ==
    /\ serving
    /\ pmetrics' = IF DOMAIN Export # {} THEN Export ELSE pmetrics
    /\ batchOut' = RenderBatch(pmetrics', deprecated)
    /\ UNCHANGED <<now, monitor, targetsMap, timers, req, lastResp, serving,
                   startIdx, staticAddrs, recon, dnsRefresh, nextRefresh,
                   deprecated, lastStore, steady, reconciled,
                   cfgTargets, mutex, scrape>>

\* ---------------------------------------------------------------- behaviours
\* Startup, concurrent on-demand requests, expiry and the batch scrape; the
\* DNS refresh runs in SpecModes and SpecStatic.
Next ==
    \/ StartMonitorStep
    \/ StartServer
    \/ Tick
    \/ \E r \in Handlers, h \in Hosts : ReqResolveFail(r, h)
    \/ \E r \in Handlers, h \in Hosts, addrs \in Resolutions : ReqResolve(r, h, addrs)
    \/ \E r \in Handlers : ReqLoad(r)
    \/ \E r \in Handlers : ReqAdd(r)
    \/ \E r \in Handlers : ReqAddFail(r)
    \/ \E r \in Handlers : ReqStop(r)
    \/ \E r \in Handlers : ReqArm(r)
    \/ \E r \in Handlers : ReqStore(r)
    \/ \E r \in Handlers : ReqServe(r)
    \/ \E id \in 1..MaxTimers : TimerFire(id)
    \/ \E id \in 1..MaxTimers : TimerDelete(id)
    \/ \E id \in 1..MaxTimers : TimerCleanUp(id)
    \/ BatchCollect

Spec == Init /\ [][Next]_vars

\* ---------------------------------------------------------------- rendering only
\* The collectors against a probing engine: no clock, no expiry, no DNS refresh.
InitRender ==
    /\ now = 0
    /\ monitor = EmptyMap
    /\ targetsMap = [h \in Hosts |-> 0]
    /\ timers = <<>>
    /\ req = [r \in Handlers |-> IdleReq]
    /\ lastResp = NoResp
    /\ serving = FALSE
    /\ startIdx = 1
    /\ staticAddrs = [h \in StaticHosts |-> <<>>]
    /\ recon = [h \in StaticHosts |-> [i \in 1..MaxRecon |-> NoRecon]]
    /\ dnsRefresh = 0
    /\ nextRefresh = 0
    /\ pmetrics = EmptyMap
    /\ batchOut = {}
    /\ deprecated \in BOOLEAN
    /\ lastStore = [h \in Hosts |-> -1]
    /\ steady = [h \in Hosts |-> TRUE]
    /\ reconciled = [h \in StaticHosts |-> NotReconciled]
    /\ cfgTargets = CfgTargets
    /\ mutex = 0
    /\ scrape = NoScrapes

NextRender ==
    \/ StartMonitorStep
    \/ StartServer
    \/ \E n \in DOMAIN monitor, isLost \in BOOLEAN : Probe(n, isLost)
    \/ \E h \in EphemeralHosts, addrs \in Resolutions : ReqResolve(1, h, addrs)
    \/ ReqLoad(1)
    \/ ReqAdd(1)
    \/ ReqStop(1)
    \/ ReqArm(1)
    \/ ReqStore(1)
    \/ ReqServe(1)
    \/ BatchCollect

SpecRender == InitRender /\ [][NextRender]_vars

\* ---------------------------------------------------------------- collectors, step by step
\* Collect as the goroutine of one scrape runs it: mutex.Lock, the Export
\* pull, the emission of the samples, and the deferred mutex.Unlock.  In the
\* specifications above a Collect is one step, which this locking justifies.
Scrapers == 1..NumScrapes
IdleScrape == [pc |-> "idle", kind |-> "", target |-> <<>>, metrics |-> ZeroMetrics]
\* the identities a pingCollector can be built for
CollectorTargets == {nameForIP(h, a) : h \in StaticHosts, a \in {"A", "B"}}
\* the Collect calls that hold the mutex
Holders == {c \in Scrapers : scrape[c].pc \in {"export", "render", "unlock"}}

InitCollect ==
    /\ now = 0
    /\ monitor = EmptyMap
    /\ targetsMap = [h \in Hosts |-> 0]
    /\ timers = <<>>
    /\ req = [r \in Handlers |-> IdleReq]
    /\ lastResp = NoResp
    /\ serving = FALSE
    /\ startIdx = 1
    /\ staticAddrs = [h \in StaticHosts |-> <<>>]
    /\ recon = [h \in StaticHosts |-> [i \in 1..MaxRecon |-> NoRecon]]
    /\ dnsRefresh = 0
    /\ nextRefresh = 0
    /\ pmetrics = EmptyMap
    /\ batchOut = {}
    /\ deprecated = TRUE
    /\ lastStore = [h \in Hosts |-> -1]
    /\ steady = [h \in Hosts |-> TRUE]
    /\ reconciled = [h \in StaticHosts |-> NotReconciled]
    /\ cfgTargets = CfgTargets
    /\ mutex = 0
    /\ scrape = [c \in Scrapers |-> IdleScrape]

\* the registry calls Collect of the handler's collector: kind is "batch"
\* (pingBatchCollector) or "single" (pingCollector with p.target = name)
CollectCall(c, kind, name) ==
    /\ serving
    /\ scrape[c].pc = "idle"
    /\ scrape' = [scrape EXCEPT ![c] = [pc |-> "lock", kind |-> kind,
                     target |-> IF kind = "single" THEN name ELSE <<>>,
                     metrics |-> ZeroMetrics]]
    /\ UNCHANGED <<now, monitor, targetsMap, timers, req, lastResp, serving,
                   startIdx, staticAddrs, recon, dnsRefresh, nextRefresh,
                   pmetrics, batchOut, deprecated, lastStore, steady,
                   reconciled, cfgTargets, mutex>>

\* a Lock that does not wait for the holder
CollectLockUnguarded(c) ==
    /\ scrape[c].pc = "lock"
    /\ mutex' = c
    /\ scrape' = [scrape EXCEPT ![c].pc = "export"]
    /\ UNCHANGED <<now, monitor, targetsMap, timers, req, lastResp, serving,
                   startIdx, staticAddrs, recon, dnsRefresh, nextRefresh,
                   pmetrics, batchOut, deprecated, lastStore, steady,
                   reconciled, cfgTargets>>

\* mutex.Lock() returns
CollectLock(c) ==
    /\ scrape[c].pc = "lock"
    /\ mutex = 0
    /\ mutex' = c
    /\ scrape' = [scrape EXCEPT ![c].pc = "export"]
    /\ UNCHANGED <<now, monitor, targetsMap, timers, req, lastResp, serving,
                   startIdx, staticAddrs, recon, dnsRefresh, nextRefresh,
                   pmetrics, batchOut, deprecated, lastStore, steady,
                   reconciled, cfgTargets>>

\* the pull: batch keeps a non-empty Export as p.metrics; single looks its
\* target up and returns at once, without a sample, when it is missing
CollectExport(c) ==
    /\ scrape[c].pc = "export"
    /\ IF scrape[c].kind = "batch"
       THEN /\ pmetrics' = IF DOMAIN Export # {} THEN Export ELSE pmetrics
            /\ scrape' = [scrape EXCEPT ![c].pc = "render"]
            /\ UNCHANGED lastResp
       ELSE /\ UNCHANGED pmetrics
            /\ IF scrape[c].target \in DOMAIN Export
               THEN /\ scrape' = [scrape EXCEPT ![c].pc = "render",
                                     ![c].metrics = Export[scrape[c].target]]
                    /\ UNCHANGED lastResp
               ELSE /\ scrape' = [scrape EXCEPT ![c].pc = "unlock"]
                    /\ lastResp' = [host |-> scrape[c].target[1], status |-> 200,
                                    out |-> {}]
    /\ UNCHANGED <<now, monitor, targetsMap, timers, req, serving,
                   startIdx, staticAddrs, recon, dnsRefresh, nextRefresh,
                   batchOut, deprecated, lastStore, steady,
                   reconciled, cfgTargets, mutex>>

\* the up gauge and the samples of the pulled snapshot go to the channel
CollectRender(c) ==
    /\ scrape[c].pc = "render"
    /\ IF scrape[c].kind = "batch"
       THEN /\ batchOut' = RenderBatch(pmetrics, deprecated)
            /\ UNCHANGED lastResp
       ELSE /\ lastResp' = [host |-> scrape[c].target[1], status |-> 200,
                            out |-> RenderSingle(scrape[c].target :> scrape[c].metrics,
                                                 scrape[c].target, deprecated)]
            /\ UNCHANGED batchOut
    /\ scrape' = [scrape EXCEPT ![c].pc = "unlock"]
    /\ UNCHANGED <<now, monitor, targetsMap, timers, req, serving,
                   startIdx, staticAddrs, recon, dnsRefresh, nextRefresh,
                   pmetrics, deprecated, lastStore, steady,
                   reconciled, cfgTargets, mutex>>

\* Collect returns: the deferred mutex.Unlock() runs
CollectUnlock(c) ==
    /\ scrape[c].pc = "unlock"
    /\ mutex' = 0
    /\ scrape' = [scrape EXCEPT ![c] = IdleScrape]
    /\ UNCHANGED <<now, monitor, targetsMap, timers, req, lastResp, serving,
                   startIdx, staticAddrs, recon, dnsRefresh, nextRefresh,
                   pmetrics, batchOut, deprecated, lastStore, steady,
                   reconciled, cfgTargets>>

NextCollect ==
    \/ StartMonitorStep
    \/ StartServer
    \/ \E n \in DOMAIN monitor, isLost \in BOOLEAN : Probe(n, isLost)
    \/ \E c \in Scrapers, kind \in {"batch", "single"}, name \in CollectorTargets :
          CollectCall(c, kind, name)
    \/ \E c \in Scrapers : CollectLock(c)
    \/ \E c \in Scrapers : CollectExport(c)
    \/ \E c \in Scrapers : CollectRender(c)
    \/ \E c \in Scrapers : CollectUnlock(c)

SpecCollect == InitCollect /\ [][NextCollect]_vars

\* ---------------------------------------------------------------- scrapes of on-demand targets
\* No static targets configured: on-demand requests, their expiry, a probing
\* engine and both collectors.
InitScrape ==
    /\ now = 0
    /\ monitor = EmptyMap
    /\ targetsMap = [h \in Hosts |-> 0]
    /\ timers = <<>>
    /\ req = [r \in Handlers |-> IdleReq]
    /\ lastResp = NoResp
    /\ serving = FALSE
    /\ startIdx = 1
    /\ staticAddrs = [h \in StaticHosts |-> <<>>]
    /\ recon = [h \in StaticHosts |-> [i \in 1..MaxRecon |-> NoRecon]]
    /\ dnsRefresh = 0
    /\ nextRefresh = 0
    /\ pmetrics = EmptyMap
    /\ batchOut = {}
    /\ deprecated \in BOOLEAN
    /\ lastStore = [h \in Hosts |-> -1]
    /\ steady = [h \in Hosts |-> TRUE]
    /\ reconciled = [h \in StaticHosts |-> NotReconciled]
    /\ cfgTargets = <<>>
    /\ mutex = 0
    /\ scrape = NoScrapes

NextScrape ==
    \/ StartServer
    \/ Tick
    \/ \E n \in DOMAIN monitor, isLost \in BOOLEAN : Probe(n, isLost)
    \/ \E h \in EphemeralHosts, addrs \in Resolutions : ReqResolve(1, h, addrs)
    \/ ReqLoad(1)
    \/ ReqAdd(1)
    \/ ReqStop(1)
    \/ ReqArm(1)
    \/ ReqStore(1)
    \/ ReqServe(1)
    \/ \E id \in 1..MaxTimers : TimerFire(id)
    \/ \E id \in 1..MaxTimers : TimerDelete(id)
    \/ \E id \in 1..MaxTimers : TimerCleanUp(id)
    \/ BatchCollect

SpecScrape == InitScrape /\ [][NextScrape]_vars

\* ---------------------------------------------------------------- static targets only
\* Two configured targets, the refresh ticker running, no scrape.
TwoTargets == <<"s1", "s2">>

InitStatic ==
    /\ now = 0
    /\ monitor = EmptyMap
    /\ targetsMap = [h \in Hosts |-> 0]
    /\ timers = <<>>
    /\ req = [r \in Handlers |-> IdleReq]
    /\ lastResp = NoResp
    /\ serving = FALSE
    /\ startIdx = 1
    /\ staticAddrs = [h \in Range(TwoTargets) |-> <<>>]
    /\ recon = [h \in Range(TwoTargets) |-> [i \in 1..MaxRecon |-> NoRecon]]
    /\ dnsRefresh \in 1..RefreshInterval
    /\ nextRefresh = 0
    /\ pmetrics = EmptyMap
    /\ batchOut = {}
    /\ deprecated = TRUE
    /\ lastStore = [h \in Hosts |-> -1]
    /\ steady = [h \in Hosts |-> TRUE]
    /\ reconciled = [h \in Range(TwoTargets) |-> NotReconciled]
    /\ cfgTargets = TwoTargets
    /\ mutex = 0
    /\ scrape = NoScrapes

NextStatic ==
    \/ StartMonitorStep
    \/ StartServer
    \/ Tick
    \/ RefreshTick
    \/ \E h \in Range(cfgTargets), i \in 1..MaxRecon, addrs \in Resolutions :
          ReconResolve(h, i, addrs)
    \/ \E h \in Range(cfgTargets), i \in 1..MaxRecon, regOk \in BOOLEAN :
          ReconAdd(h, i, regOk)
    \/ \E h \in Range(cfgTargets), i \in 1..MaxRecon : ReconRemove(h, i)
    \/ \E h \in Range(cfgTargets), i \in 1..MaxRecon : ReconWrite(h, i)

SpecStatic == InitStatic /\ [][NextStatic]_vars

\* ---------------------------------------------------------------- refresh on or off
\* One static target, --dns.refresh disabled (0 or negative) or enabled, and
\* one on-demand request at a time.
InitModes ==
    /\ now = 0
    /\ monitor = EmptyMap
    /\ targetsMap = [h \in Hosts |-> 0]
    /\ timers = <<>>
    /\ req = [r \in Handlers |-> IdleReq]
    /\ lastResp = NoResp
    /\ serving = FALSE
    /\ startIdx = 1
    /\ staticAddrs = [h \in StaticHosts |-> <<>>]
    /\ recon = [h \in StaticHosts |-> [i \in 1..MaxRecon |-> NoRecon]]
    /\ dnsRefresh \in {-1, 0, RefreshInterval}
    /\ nextRefresh = 0
    /\ pmetrics = EmptyMap
    /\ batchOut = {}
    /\ deprecated = TRUE
    /\ lastStore = [h \in Hosts |-> -1]
    /\ steady = [h \in Hosts |-> TRUE]
    /\ reconciled = [h \in StaticHosts |-> NotReconciled]
    /\ cfgTargets = CfgTargets
    /\ mutex = 0
    /\ scrape = NoScrapes

NextModes ==
    \/ StartMonitorStep
    \/ StartServer
    \/ Tick
    \/ \E h \in Hosts, addrs \in Resolutions : ReqResolve(1, h, addrs)
    \/ ReqLoad(1)
    \/ ReqAdd(1)
    \/ ReqStop(1)
    \/ ReqArm(1)
    \/ ReqStore(1)
    \/ ReqServe(1)
    \/ \E id \in 1..MaxTimers : TimerFire(id)
    \/ \E id \in 1..MaxTimers : TimerDelete(id)
    \/ \E id \in 1..MaxTimers : TimerCleanUp(id)
    \/ RefreshTick
    \/ \E h \in Range(cfgTargets), i \in 1..MaxRecon, addrs \in Resolutions :
          ReconResolve(h, i, addrs)
    \/ \E h \in Range(cfgTargets), i \in 1..MaxRecon, regOk \in BOOLEAN :
          ReconAdd(h, i, regOk)
    \/ \E h \in Range(cfgTargets), i \in 1..MaxRecon : ReconRemove(h, i)
    \/ \E h \in Range(cfgTargets), i \in 1..MaxRecon : ReconWrite(h, i)
    \/ BatchCollect

SpecModes == InitModes /\ [][NextModes]_vars

\* ================================================================ claims
RttDescs == {"rtt_" \o st : st \in RttStats}

LossSamples(S) == {x \in S : x.desc = "loss_percent"}

\* the RTT samples of S that carry the labels l
RttOf(S, l) == {y \in S : y.labels = l /\ y.desc \in RttDescs \cup {"rtt"}}

\* all four statistics (and, when enabled, their type-labelled counterparts)
AllRtt(S, l) ==
    /\ {y.desc : y \in RttOf(S, l)} \cap RttDescs = RttDescs
    /\ deprecated => {y.type : y \in {z \in RttOf(S, l) : z.desc = "rtt"}} = RttStats

\* C8: in both render modes the RTT statistics of a Probe Identity are emitted
\* if and only if packets_sent > packets_lost: in the batch output against the
\* snapshot it was rendered from, in the single-target output against the
\* packets_lost / packets_sent of the loss sample emitted with them.
C8_RttIffRoundTrips ==
    /\ batchOut # {} =>
         \A n \in DOMAIN pmetrics :
            IF pmetrics[n].sent > pmetrics[n].lost
            THEN AllRtt(batchOut, SplitN(n))
            ELSE RttOf(batchOut, SplitN(n)) = {}
    /\ \A x \in LossSamples(lastResp.out) :
            IF x.den > x.num
            THEN AllRtt(lastResp.out, x.labels)
            ELSE RttOf(lastResp.out, x.labels) = {}

\* both modes have rendered an entry with round trips, and the batch mode also
\* one that sent packets and lost them all
C8_Witness ==
    /\ \E n, k \in DOMAIN pmetrics :
          /\ pmetrics[n].sent > pmetrics[n].lost
          /\ pmetrics[k].sent > 0 /\ pmetrics[k].sent = pmetrics[k].lost
          /\ AllRtt(batchOut, SplitN(n))
          /\ RttOf(batchOut, SplitN(k)) = {}
    /\ \E x \in LossSamples(lastResp.out) :
          x.den > x.num /\ AllRtt(lastResp.out, x.labels)

\* C10: every loss value emitted for an entry with packets_sent > 0 lies in
\* [0, 1], in both render modes.
C10_LossInUnitInterval ==
    \A x \in LossSamples(batchOut) \cup LossSamples(lastResp.out) :
        x.den > 0 => 0 <= x.num /\ x.num <= x.den

TimerIds == 1..Len(timers)
TimersOf(h) == {id \in TimerIds : timers[id].host = h}
Pending(h) == {id \in TimersOf(h) : timers[id].state = "pending"}
Registered(h) == {n \in DOMAIN monitor : n[1] = h}
Busy(h) == \E r \in Handlers : req[r].pc # "idle" /\ req[r].host = h
CallbackRunning(h) ==
    \E id \in TimersOf(h) : timers[id].state \in {"fired", "cleanup"}
Labelled(S, h) == {x \in S : x.labels.target = h}

\* C1: at every moment, under every interleaving of on-demand requests, at most
\* one un-stopped, un-fired expiry timer exists per on-demand hostname.
C1_OnePendingTimer ==
    \A h \in EphemeralHosts : Cardinality(Pending(h)) <= 1

\* C2: an on-demand hostname whose last request armed its timer more than
\* targets.timeout ago (no request and no expiry callback for it in progress)
\* has no targetsMap entry and no address registered with the monitor.
C2_IdleHostRemoved ==
    \A h \in EphemeralHosts :
        (/\ lastStore[h] >= 0
         /\ now > lastStore[h] + TargetsTimeout
         /\ ~Busy(h)
         /\ ~CallbackRunning(h))
        => targetsMap[h] = 0 /\ Registered(h) = {}

\* C3: while every gap between consecutive successful requests for an
\* on-demand hostname has been shorter than targets.timeout, the latest one
\* is less than targets.timeout old and the hostname has an entry, no expiry
\* callback starts for it.
C3_NoExpiryWhileScraped ==
    [][\A id \in TimerIds :
          (/\ timers[id].host \in EphemeralHosts
           /\ targetsMap[timers[id].host] # 0
           /\ timers[id].state = "pending"
           /\ timers'[id].state = "fired")
          => ~(/\ steady[timers[id].host]
               /\ now < lastStore[timers[id].host] + TargetsTimeout)]_vars

\* C4: a hostname of the static target list is never stored in targetsMap and
\* never gets an expiry timer.
C4_StaticNeverEphemeral ==
    \A h \in StaticHosts : targetsMap[h] = 0 /\ TimersOf(h) = {}

\* an expiry callback of h has completed and nothing of h is pending or running
Expired(h) ==
    /\ \E id \in TimersOf(h) : timers[id].state = "done"
    /\ \A id \in TimersOf(h) : timers[id].state \in {"done", "stopped"}
    /\ targetsMap[h] = 0
    /\ ~Busy(h)

\* C5: a batch Collect that follows the completed expiry of an on-demand
\* target emits no sample labelled with that target.
C5_ExpiredNotExported ==
    [][BatchCollect =>
          \A h \in EphemeralHosts : Expired(h) => Labelled(batchOut', h) = {}]_vars

\* C6: a request answered 400 (lookup error or no address) registers nothing,
\* leaves targetsMap alone, creates no timer and stops or replaces none.
C6_LookupFailureChangesNothing ==
    [][(lastResp' # lastResp /\ lastResp'.status = 400)
          => UNCHANGED <<monitor, targetsMap, timers, req>>]_vars

\* a 400 was answered for a hostname whose entry holds a pending timer
C6_Witness ==
    /\ lastResp.status = 400
    /\ targetsMap[lastResp.host] # 0
    /\ timers[targetsMap[lastResp.host]].state = "pending"

FailsWith500(r) == req[r].pc = "add" /\ req'[r].pc = "idle"
EndsWith200(r) == req[r].pc = "serve" /\ req'[r].pc = "idle"
Stores(r) == req[r].pc = "store" /\ req'[r].pc = "serve"

\* C7 as stated: after the 500 targetsMap has no entry for the hostname, and a
\* successful request ends with its own new timer stored under the hostname.
C7_AsStated ==
    [][\A r \in Handlers :
          /\ (FailsWith500(r) /\ req[r].host \in EphemeralHosts) =>
                lastResp'.status = 500 /\ targetsMap'[req[r].host] = 0
          /\ (EndsWith200(r) /\ req[r].host \in EphemeralHosts) =>
                lastResp'.status = 200 /\ targetsMap'[req[r].host] = req[r].mine]_vars

Arms(r) == req[r].pc = "arm" /\ req'[r].pc = "store"

\* C7 amended: the request answered 500 stores no entry, creates no timer and
\* registers nothing itself; a successful request creates exactly one timer,
\* pending and due targets.timeout later, and its Store leaves exactly that
\* timer in targetsMap under the hostname, whatever has become of the timer.
C7_FailureStoresNothing ==
    [][\A r \in Handlers :
          /\ FailsWith500(r) =>
                /\ lastResp'.status = 500
                /\ UNCHANGED <<monitor, targetsMap, timers>>
          /\ Arms(r) =>
                /\ Len(timers') = Len(timers) + 1
                /\ req'[r].mine = Len(timers')
                /\ timers'[Len(timers')].host = req[r].host
                /\ timers'[Len(timers')].state = "pending"
                /\ timers'[Len(timers')].deadline = now + TargetsTimeout
                /\ \A id \in TimerIds : timers'[id] = timers[id]
                /\ UNCHANGED targetsMap
          /\ Stores(r) =>
                /\ targetsMap'[req[r].host] = req[r].mine
                /\ \A h \in Hosts \ {req[r].host} : targetsMap'[h] = targetsMap[h]
                /\ UNCHANGED timers]_vars

\* a request was answered 500 and left no entry; another has stored its timer
C7_Witness ==
    /\ lastResp.status = 500
    /\ targetsMap[lastResp.host] = 0
    /\ \E r \in Handlers :
          /\ req[r].pc = "serve"
          /\ targetsMap[req[r].host] = req[r].mine
          /\ timers[req[r].mine].state = "pending"

\* C9: once a reconciliation has changed a static target from address a to b,
\* the next batch export carries labels for b and none for a.
C9_RefreshedAddressExported ==
    [][BatchCollect =>
          \A h \in StaticHosts :
             (reconciled[h] # NotReconciled /\ \A i \in 1..MaxRecon : recon[h][i].pc = "none")
             => /\ \E x \in batchOut' : x.labels = SplitN(nameForIP(h, reconciled[h].to[1]))
                /\ \A x \in batchOut' : x.labels # SplitN(nameForIP(h, reconciled[h].from[1]))]_vars

\* C11: at any time at most one Collect call, of either collector, is between
\* taking the package-level mutex for its Export pull and the end of its
\* emission, and the mutex is free again whenever no Collect is in that
\* section, whichever way Collect returned.
C11_OneCollectAtATime ==
    /\ Cardinality(Holders) <= 1
    /\ mutex # 0 => Holders = {mutex}
    /\ mutex = 0 => Holders = {}

\* a batch Collect is emitting while a single-target Collect waits for the mutex
C11_Witness ==
    \E c, d \in Scrapers :
       /\ scrape[c].pc = "render" /\ scrape[c].kind = "batch"
       /\ scrape[d].pc = "lock" /\ scrape[d].kind = "single"

\* the identity the single-target collector of request r looks up
LookedUp(r) == nameForIP(req[r].host, req[r].addrs[1])
\* the samples of S that carry the labels of one identity
SamplesFor(S, name) == {x \in S : x.labels = SplitN(name)}
\* the batch collector has collected the engine state as it is now: a batch
\* Collect run now would emit batchOut again
BatchSynced ==
    /\ batchOut # {}
    /\ pmetrics = monitor \/ DOMAIN monitor = {}

\* C12 as stated: whatever the engine state, the samples a single-target
\* Collect emits for its identity X are the up gauge plus the samples a batch
\* Collect on the same engine state emits for X, also when X is missing from
\* the fresh snapshot or the fresh snapshot is empty and the batch is cached.
C12_AsStated ==
    [][\A r \in Handlers :
          (EndsWith200(r) /\ BatchSynced) =>
             lastResp'.out = {UpSample} \cup SamplesFor(batchOut, LookedUp(r))]_vars

Deletes(id) == timers[id].state = "fired" /\ timers'[id].state = "cleanup"
CleansUp(id) == timers[id].state = "cleanup" /\ timers'[id].state = "done"

\* C13: the expiry callback of a timer deletes the targetsMap entry of its
\* hostname only if the entry still holds this very timer, and a timer that a
\* newer entry has superseded deregisters none of the addresses of the
\* hostname the newer entry keeps alive.
C13_CallbackOwnEntryOnly ==
    [][\A id \in TimerIds :
          LET h == timers[id].host
          IN  h \in EphemeralHosts =>
                /\ (Deletes(id) /\ targetsMap[h] # id) =>
                      targetsMap'[h] = targetsMap[h]
                /\ (CleansUp(id) /\ targetsMap[h] \notin {0, id}) =>
                      {n \in DOMAIN monitor' : n[1] = h} = Registered(h)]_vars

\* C14: whenever targetsMap holds an entry for an on-demand hostname and no
\* request and no expiry callback for that hostname is in progress, an address
\* of the hostname is registered with the monitor (stated for the entries
\* whose timer is still pending).
C14_EntryImpliesRegistered ==
    \A h \in EphemeralHosts :
       (/\ targetsMap[h] # 0
        /\ timers[targetsMap[h]].state = "pending"
        /\ ~Busy(h)
        /\ ~CallbackRunning(h)) => Registered(h) # {}

\* C15: a batch Collect renders a non-empty Export and keeps it as the cached
\* snapshot; on an empty Export it leaves the cached snapshot unchanged and
\* renders that one; and when no non-empty snapshot was ever pulled it emits
\* the up gauge only.
C15_SnapshotPolicy ==
    [][BatchCollect =>
          /\ DOMAIN monitor # {} =>
                /\ pmetrics' = monitor
                /\ batchOut' = RenderBatch(monitor, deprecated)
          /\ DOMAIN monitor = {} =>
                /\ pmetrics' = pmetrics
                /\ batchOut' = RenderBatch(pmetrics, deprecated)
          /\ (DOMAIN monitor = {} /\ DOMAIN pmetrics = {}) =>
                batchOut' = {UpSample}]_vars

\* the engine exports nothing any more, and the batch collector has emitted
\* the round-trip samples of the snapshot it cached
C15_Witness ==
    /\ DOMAIN monitor = {}
    /\ \E n \in DOMAIN pmetrics :
          /\ HasRoundTrips(pmetrics[n])
          /\ \E x \in batchOut : x.desc = "rtt_best" /\ x.labels = SplitN(n)

RegisteredIn(m, h) == {n \in DOMAIN m : n[1] = h}
Running(h) == {i \in 1..MaxRecon : recon[h][i].pc # "none"}
\* the steps of the static target manager, told by what they change
StartupStepFor(h) == startIdx' = startIdx + 1 /\ startIdx \in DOMAIN cfgTargets
                     /\ cfgTargets[startIdx] = h
ReconcileStepOf(h) == \E i \in 1..MaxRecon :
                         recon[h][i].pc # "none" /\ recon'[h][i] # recon[h][i]
TickStep == serving /\ nextRefresh' # nextRefresh
OthersUntouched(h) ==
    \A g \in Range(cfgTargets) \ {h} :
       /\ staticAddrs'[g] = staticAddrs[g]
       /\ RegisteredIn(monitor', g) = RegisteredIn(monitor, g)
       /\ recon'[g] = recon[g]

\* C16: a static target that cannot be resolved or registered, at startup or
\* in a refresh, stops nothing: the startup loop goes on to the next target,
\* the server starts only after every target had its attempt, a failing
\* attempt leaves the other targets and the ticker as they are, and every
\* tick starts a reconciliation of every target, the failed ones included.
C16_FailureOnlyLogged ==
    [][/\ startIdx' # startIdx => startIdx' = startIdx + 1
       /\ \A h \in Range(cfgTargets) :
             (StartupStepFor(h) \/ ReconcileStepOf(h)) =>
                /\ OthersUntouched(h)
                /\ dnsRefresh' = dnsRefresh /\ nextRefresh' = nextRefresh
       /\ (serving' /\ ~serving) => startIdx > Len(cfgTargets)
       /\ TickStep => \A h \in Range(cfgTargets) :
                         Cardinality(Running(h)') = Cardinality(Running(h)) + 1]_vars

\* the first target failed at startup, the second one was registered all the
\* same, and a tick has started the failed target's reconciliation again
C16_Witness ==
    /\ serving
    /\ cfgTargets = TwoTargets
    /\ staticAddrs["s1"] = <<>> /\ RegisteredIn(monitor, "s1") = {}
    /\ staticAddrs["s2"] # <<>> /\ RegisteredIn(monitor, "s2") # {}
    /\ Running("s1") # {}

\* C17: with a DNS refresh interval of 0 or less no reconciliation is ever
\* started, and once startMonitor has registered the static targets neither
\* their recorded addresses nor the set of addresses registered with the
\* monitor for a static hostname changes any more.
C17_NoRefreshWhenDisabled ==
    [][dnsRefresh <= 0 =>
          /\ recon' = recon
          /\ serving => /\ staticAddrs' = staticAddrs
                        /\ \A h \in StaticHosts :
                              RegisteredIn(monitor', h) = RegisteredIn(monitor, h)]_vars

\* C18: at any time at most one addOrUpdateMonitor execution is in progress
\* for a static target: no tick starts a reconciliation of a target whose
\* earlier reconciliation has not finished.
C18_OneReconciliationPerTarget ==
    \A h \in Range(cfgTargets) : Cardinality(Running(h)) <= 1

\* C19: whenever an on-demand request is answered with the single-target
\* export, the identity its collector looks up, the hostname with the first
\* address this request resolved, is registered with the monitor (stated for
\* the requests during which no timer of the hostname has expired).
C19_LookedUpIsRegistered ==
    [][\A r \in Handlers :
          (/\ EndsWith200(r)
           /\ req[r].host \in EphemeralHosts
           /\ \A id \in TimersOf(req[r].host) :
                 timers[id].state \in {"pending", "stopped"}) =>
             LookedUp(r) \in DOMAIN monitor]_vars

====
